---- MODULE Spec2Model ----
(***************************************************************************)
(* Model of streamlit_spotify_visualizer.py: the SpotifyVisualizer class   *)
(* (authenticate and the catalog accessors) and the session state machine  *)
(* that main() drives, one action per script run (one button click).       *)
(*                                                                         *)
(* Python values: None is the string "None" where the value is a string,   *)
(* and a sentinel record (NoneTrack, NoneAnalysis, NonePlaying) where the  *)
(* value is a dict.  A list is a sequence.  The remote provider is opaque: *)
(* every remote call either raises or returns a payload drawn from a small *)
(* set.  Of the fields the code copies verbatim and never tests, name      *)
(* stands for all (artists, popularity, duration_ms); album stands for the *)
(* provider fields the code does not copy.                                 *)
(***************************************************************************)
EXTENDS Integers, Sequences, FiniteSets, TLC

VARIABLES
    sp,               \* st.session_state.visualizer.sp: "none" | "oauth" | "cc"
    authenticated,    \* st.session_state.authenticated
    auth_mode,        \* st.session_state.auth_mode: "full" | "limited"
    current_track,    \* st.session_state.current_track (NoneTrack when unset)
    current_features, \* st.session_state.current_features
    current_analysis, \* st.session_state.current_analysis
    search_results,   \* st.session_state.search_results (<<>> when unset)
    run,              \* what the last script run did: button, auth call, accessor calls
    main,             \* what the main content area of the last script run showed
    acc               \* one accessor call taken alone: provider payload and result

vars == <<sp, authenticated, auth_mode, current_track,
          current_features, current_analysis, search_results, run, main, acc>>

---------------------------------------------------------------------------
(* Bounds *)

\* longest provider item list given to an accessor call taken alone
MaxItems == 3
\* most authorization attempts a single authenticate call is followed through
MaxAttempts == 3
\* most segments in an audio analysis
MaxSegments == 1

BoundedSeq(S, n) == UNION {[1..k -> S] : k \in 0..n}

---------------------------------------------------------------------------
(* Values *)

TrackIds == {"t1", "t2"}
\* preview_url as the provider sends it: JSON null, an empty string, or a URL
PreviewValues == {"None", "", "url"}

NoneTrack == [id |-> "None", preview_url |-> "None"]
\* a track object as the provider sends it
Track(id, preview) ==
    [id |-> id, name |-> IF id = "t1" THEN "n1" ELSE "n2",
     preview_url |-> preview, album |-> "album"]
Tracks == {Track(i, p) : i \in TrackIds, p \in PreviewValues}
\* a playlist item's track, or a search result item: a track object or null
MaybeTracks == Tracks \cup {NoneTrack}

\* Python truthiness of a string-or-None value
Truthy(v) == v \notin {"None", ""}

NoneAnalysis == [kind |-> "None"]
Analyses == {[kind |-> "analysis", segments |-> n] : n \in 0..MaxSegments}

\* an analysis the provider sends without a 'segments' key
AnalysisWithoutSegments == [kind |-> "analysis"]

NonePlaying == [id |-> "None"]

\* what an accessor hands back, with the remote calls it issued and whether
\* it reported an error through st.error
Result(ret, net, err) == [ret |-> ret, net |-> net, err |-> err]

---------------------------------------------------------------------------
(* Provider payloads *)

Raised == [raised |-> TRUE, items |-> <<>>]
Items(s) == [raised |-> FALSE, items |-> s]

\* sp.playlist_tracks(id) and sp.search(q): raises, or a list of items
TrackResponses == {Raised} \cup {Items(s) : s \in BoundedSeq(MaybeTracks, MaxItems)}
\* the payloads a session's script runs are followed on: a failure, an empty
\* list, a list with nothing playable, a list with a null item, two tracks
SessionTrackResponses ==
    {Raised, Items(<<>>),
     Items(<<Track("t1", "None")>>),
     Items(<<NoneTrack, Track("t1", "url")>>),
     Items(<<Track("t1", "url"), Track("t2", "url")>>)}
\* sp.current_user_playlists(): raises, or a list of playlists
PlaylistResponses ==
    {Raised, Items(<<>>),
     Items(<<[name |-> "n1", id |-> "p1"], [name |-> "n2", id |-> "p2"]>>)}
\* sp.audio_features(id): raises, [None] or [vector]
FeatureResponses == {"Raise", "None", "vec"}
\* sp.audio_analysis(id): raises, None or an analysis
AnalysisResponses ==
    {[kind |-> "Raise"], NoneAnalysis, AnalysisWithoutSegments} \cup Analyses
\* sp.current_user_playing_track(): raises, None or a playback object, whose
\* item is a track or null (an advertisement, an episode)
PlayingResponses ==
    {[kind |-> "Raise"], [kind |-> "None"]}
        \cup {[kind |-> "playback", is_playing |-> b, item |-> t] :
                b \in BOOLEAN, t \in {Track(i, "url") : i \in TrackIds} \cup {NoneTrack}}

---------------------------------------------------------------------------
(* SpotifyVisualizer accessors *)

\* the dict built at lines 165-172 and 188-195
TrackDict(track) ==
    [id |-> track.id, name |-> track.name, preview_url |-> track.preview_url]

\* line 164 with the preview test dropped
KeepPlaylistTrackNoPreviewTest(track) == track # NoneTrack

\* line 164: if track and track['preview_url']
KeepPlaylistTrack(track) ==
    track # NoneTrack /\ Truthy(track.preview_url)

\* lines 161-173 with each kept track put in front of the list
RECURSIVE PlaylistLoopPrepending(_, _)
PlaylistLoopPrepending(items, tracks) ==
    IF items = <<>> THEN tracks
    ELSE PlaylistLoopPrepending(Tail(items),
                                IF KeepPlaylistTrack(Head(items))
                                THEN <<TrackDict(Head(items))>> \o tracks
                                ELSE tracks)

\* lines 161-173: the loop over results['items'], appending in order
RECURSIVE PlaylistLoop(_, _)
PlaylistLoop(items, tracks) ==
    IF items = <<>> THEN tracks
    ELSE PlaylistLoop(Tail(items),
                      IF KeepPlaylistTrack(Head(items))
                      THEN Append(tracks, TrackDict(Head(items)))
                      ELSE tracks)

get_user_playlists(client, resp) ==
    IF client = "none" THEN Result(<<>>, <<>>, FALSE)
    ELSE IF resp.raised THEN Result(<<>>, <<"current_user_playlists">>, TRUE)
    ELSE Result(resp.items, <<"current_user_playlists">>, FALSE)

get_playlist_tracks(client, resp) ==
    IF client = "none" THEN Result(<<>>, <<>>, FALSE)
    ELSE IF resp.raised THEN Result(<<>>, <<"playlist_tracks">>, TRUE)
    ELSE Result(PlaylistLoop(resp.items, <<>>), <<"playlist_tracks">>, FALSE)

\* line 187: track['preview_url'] raises TypeError when track is None
\* lines 185-196: the loop; raised tells that an item made it raise
RECURSIVE SearchLoop(_, _)
SearchLoop(items, tracks) ==
    IF items = <<>> THEN [raised |-> FALSE, tracks |-> tracks]
    ELSE IF Head(items) = NoneTrack THEN [raised |-> TRUE, tracks |-> <<>>]
    ELSE SearchLoop(Tail(items),
                    IF Truthy(Head(items).preview_url)
                    THEN Append(tracks, TrackDict(Head(items)))
                    ELSE tracks)

search_tracks(client, resp) ==
    IF client = "none" THEN Result(<<>>, <<>>, FALSE)
    ELSE IF resp.raised THEN Result(<<>>, <<"search">>, TRUE)
    ELSE LET r == SearchLoop(resp.items, <<>>)
         IN  IF r.raised THEN Result(<<>>, <<"search">>, TRUE)
             ELSE Result(r.tracks, <<"search">>, FALSE)

\* lines 201-212 with the except branch returning the bare None of line 204
get_track_features_BareNoneOnFailure(client, fresp, aresp) ==
    IF client = "none" THEN Result(<<"None">>, <<>>, FALSE)
    ELSE IF fresp = "Raise"
         THEN Result(<<"None">>, <<"audio_features">>, TRUE)
    ELSE IF aresp.kind = "Raise"
         THEN Result(<<"None">>, <<"audio_features", "audio_analysis">>, TRUE)
    ELSE Result(<<fresp, aresp>>, <<"audio_features", "audio_analysis">>, FALSE)

\* ret is <<"None">> for the bare None of line 204 and a pair otherwise
get_track_features(client, fresp, aresp) ==
    IF client = "none" THEN Result(<<"None">>, <<>>, FALSE)
    ELSE IF fresp = "Raise"
         THEN Result(<<"None", NoneAnalysis>>, <<"audio_features">>, TRUE)
    ELSE IF aresp.kind = "Raise"
         THEN Result(<<"None", NoneAnalysis>>,
                     <<"audio_features", "audio_analysis">>, TRUE)
    ELSE Result(<<fresp, aresp>>, <<"audio_features", "audio_analysis">>, FALSE)

\* line 221 without the is_playing test
IsPlayingAnyPlayback(resp) == resp.kind = "playback"

\* line 221: if current and current['is_playing']
IsPlaying(resp) == resp.kind = "playback" /\ resp.is_playing

\* lines 214-232; track['name'] of line 224 raises TypeError on a null item
get_currently_playing(client, resp) ==
    IF client = "none" THEN Result(NonePlaying, <<>>, FALSE)
    ELSE IF resp.kind = "Raise"
         THEN Result(NonePlaying, <<"current_user_playing_track">>, TRUE)
    ELSE IF IsPlaying(resp)
         THEN IF resp.item = NoneTrack
              THEN Result(NonePlaying, <<"current_user_playing_track">>, TRUE)
              ELSE Result([id |-> resp.item.id, name |-> resp.item.name],
                          <<"current_user_playing_track">>, FALSE)
    ELSE Result(NonePlaying, <<"current_user_playing_track">>, FALSE)

---------------------------------------------------------------------------
(* SpotifyVisualizer.authenticate *)

\* How one authorization attempt goes at the provider:
\*   "ok"           the client is built and sp.current_user() returns
\*   "ctor_fail"    building the auth manager or client raises
\*   "verify_addr"  sp.current_user() raises, "Address already in use" in the message
\*   "verify_other" sp.current_user() raises with any other message
AttemptOutcomes == {"ok", "ctor_fail", "verify_addr", "verify_other"}

\* The provider's outcomes for the successive attempts of one call.  A call
\* goes on to a further attempt exactly after "verify_addr", so a script is
\* a run of "verify_addr" closed by another outcome; calls that the provider
\* keeps answering with "Address already in use" beyond MaxAttempts attempts
\* are not followed.
AuthScripts ==
    {s \in BoundedSeq(AttemptOutcomes, MaxAttempts) :
        /\ Len(s) >= 1
        /\ \A i \in 1..(Len(s) - 1) : s[i] = "verify_addr"
        /\ s[Len(s)] # "verify_addr"}

\* lines 76-113 with the verification call of line 112 left out
TryBlockNoVerify(sp0, use_cc, out) ==
    LET client == IF use_cc THEN "cc" ELSE "oauth"
    IN  IF out = "ctor_fail"
        THEN [sp |-> sp0, verified |-> FALSE, raised |-> "other"]
        ELSE [sp |-> client, verified |-> FALSE, raised |-> "no"]

\* lines 76-113 with the client kept in a local variable, never in self.sp
TryBlockClientNotStored(sp0, use_cc, out) ==
    [sp |-> sp0, verified |-> out = "ok",
     raised |-> CASE out = "ok" -> "no"
                  [] out = "verify_addr" -> "addr"
                  [] OTHER -> "other"]

\* lines 76-113, the try block of one attempt: the client is assigned to
\* self.sp before the verification call, so a failed verification leaves it
\* there; raised is "no", or tells whether the message names the address
TryBlock(sp0, use_cc, out) ==
    LET client == IF use_cc THEN "cc" ELSE "oauth"
    IN  IF out = "ctor_fail"
        THEN [sp |-> sp0, verified |-> FALSE, raised |-> "other"]
        ELSE [sp |-> client, verified |-> out = "ok",
              raised |-> CASE out = "ok" -> "no"
                           [] out = "verify_addr" -> "addr"
                           [] OTHER -> "other"]

\* line 117 never taking the fallback
RetriesNever(use_cc, raised) == FALSE

\* line 117: if "Address already in use" in error_msg (whatever the mode)
Retries(use_cc, raised) == raised = "addr"

\* lines 74-122.  attempts lists, per authorization attempt, the client kind
\* tried, and whether its verification call was made and returned.
RECURSIVE authenticate(_, _, _)
authenticate(sp0, use_cc, script) ==
    LET t == TryBlock(sp0, use_cc, Head(script))
        a == [client |-> IF use_cc THEN "cc" ELSE "oauth",
              outcome |-> Head(script), verified |-> t.verified]
    IN  IF t.raised = "no"
        THEN [ret |-> TRUE, sp |-> t.sp, attempts |-> <<a>>]
        ELSE IF Retries(use_cc, t.raised)
        THEN LET r == authenticate(t.sp, TRUE, Tail(script))
             IN  [r EXCEPT !.attempts = <<a>> \o @]
        ELSE [ret |-> FALSE, sp |-> t.sp, attempts |-> <<a>>]

\* lines 124-140
authenticate_with_secrets(sp0, secrets, script) ==
    IF secrets THEN authenticate(sp0, FALSE, script)
    ELSE [ret |-> FALSE, sp |-> sp0, attempts |-> <<>>]

---------------------------------------------------------------------------
(* Chart builders and the main content area *)

\* lines 336 and 379: not analysis or 'segments' not in analysis
LacksSegments(analysis) ==
    analysis = NoneAnalysis \/ "segments" \notin DOMAIN analysis

\* lines 334-375: None, a figure, or "Raise" when min() of line 346 is given
\* the empty loudness list of an analysis with zero segments (ValueError)
create_waveform_visualization(analysis) ==
    IF LacksSegments(analysis) THEN "None"
    ELSE IF analysis.segments = 0 THEN "Raise"
    ELSE "fig"

\* lines 377-417: None or a figure; the comprehensions of lines 384-388 run
\* over an empty list without raising
create_3d_visualization(features, analysis) ==
    IF LacksSegments(analysis) THEN "None" ELSE "fig"

\* what a tab shows for a builder's result (lines 616-619, 624-627)
TabShows(fig) == IF fig = "None" THEN "unavailable" ELSE "chart"

\* the main area of a run that ended before reaching it (st.rerun(), or an
\* exception in the sidebar)
NotRendered ==
    [shown |-> "nothing", track |-> NoneTrack, waveform |-> "skipped",
     fig3d |-> "skipped", raised |-> FALSE]

\* lines 571-701: the login prompt, the selection prompt, or the track with
\* its tabs; an exception in the waveform tab ends the run before the 3D tab
MainArea(auth, track, features, analysis) ==
    IF ~auth THEN [NotRendered EXCEPT !.shown = "login"]
    ELSE IF track = NoneTrack THEN [NotRendered EXCEPT !.shown = "select"]
    ELSE IF analysis = NoneAnalysis
    THEN [NotRendered EXCEPT !.shown = "track", !.track = track]
    ELSE LET w == create_waveform_visualization(analysis)
             d == create_3d_visualization(features, analysis)
         IN  IF w = "Raise"
             THEN [shown |-> "track", track |-> track, waveform |-> "raise",
                   fig3d |-> "skipped", raised |-> TRUE]
             ELSE [shown |-> "track", track |-> track, waveform |-> TabShows(w),
                   fig3d |-> TabShows(d), raised |-> FALSE]

\* the main area at the end of a script run: skipped when the run ended in
\* st.rerun() or in an exception, drawn from the session as the run left it
MainAfter(ended, auth, track, features, analysis) ==
    IF ended THEN NotRendered ELSE MainArea(auth, track, features, analysis)

---------------------------------------------------------------------------
(* main(): the session and its script runs *)

\* the authenticate call of a script run: its use_client_credentials argument,
\* the provider's outcomes it ran against, what it returned and its attempts
NoAuth == [called |-> FALSE, use_cc |-> FALSE, script |-> <<>>, ret |-> FALSE,
           attempts |-> <<>>]
AuthCall(use_cc, script, r) ==
    [called |-> TRUE, use_cc |-> use_cc, script |-> script, ret |-> r.ret,
     attempts |-> r.attempts]

Run(button, auth, calls) ==
    [button |-> button, auth |-> auth, calls |-> calls, crashed |-> FALSE]

\* one accessor invocation of a script run: the client it ran on, the remote
\* calls it issued and whether it reported an error
Call(op, client, r) ==
    [op |-> op, client |-> client, net |-> r.net, err |-> r.err]

NoAcc == [op |-> "none", for |-> "tracks", resp |-> Raised,
          out |-> Result(<<>>, <<>>, FALSE)]

\* lines 420-426
InitSession ==
    /\ sp = "none"
    /\ authenticated = FALSE
    /\ auth_mode = "full"
    /\ current_track = NoneTrack
    /\ current_features = "None"
    /\ current_analysis = NoneAnalysis
    /\ search_results = <<>>
    /\ run = Run("none", NoAuth, <<>>)
    /\ main = NotRendered

Init ==
    /\ InitSession
    /\ acc = NoAcc

\* line 474 always recording 'full'
ModeAfterConnectAlwaysFull(use_cc) == "full"

\* line 474: 'full' if not use_client_credentials else 'limited'
ModeAfterConnect(use_cc) == IF use_cc THEN "limited" ELSE "full"

\* lines 470-478: the Connect button with the manual credential form
ConnectManual ==
    /\ ~authenticated
    /\ \E use_cc \in BOOLEAN, filled \in BOOLEAN, script \in AuthScripts :
        IF filled
        THEN LET r == authenticate(sp, use_cc, script)
             IN  /\ sp' = r.sp
                 /\ authenticated' = r.ret
                 /\ auth_mode' = IF r.ret THEN ModeAfterConnect(use_cc) ELSE auth_mode
                 /\ run' = Run("connect", AuthCall(use_cc, script, r), <<>>)
        ELSE /\ run' = Run("connect", NoAuth, <<>>)
             /\ UNCHANGED <<sp, authenticated, auth_mode>>
    /\ UNCHANGED <<current_track, current_features, current_analysis,
                   search_results, acc>>
    /\ main' = MainAfter(authenticated', authenticated', current_track',
                         current_features', current_analysis')

\* lines 439-445: the Use Cloud Credentials button, which a deployment with
\* stored secrets offers beside the manual form
ConnectSecrets ==
    /\ ~authenticated
    /\ \E script \in AuthScripts :
        LET r == authenticate_with_secrets(sp, TRUE, script)
        IN  /\ sp' = r.sp
            /\ authenticated' = r.ret
            /\ auth_mode' = IF r.ret THEN "full" ELSE auth_mode
            /\ run' = Run("secrets", AuthCall(FALSE, script, r), <<>>)
    /\ UNCHANGED <<current_track, current_features, current_analysis,
                   search_results, acc>>
    /\ main' = MainAfter(authenticated', authenticated', current_track',
                         current_features', current_analysis')

\* line 487 left out: the visualizer and its client are kept
KeepVisualizer(old) == old

\* line 487 with lines 68-69: a new SpotifyVisualizer, whose sp is None
NewVisualizer(old) == "none"

\* lines 485-488 with the analysed track and the search results cleared too
DisconnectClearingTrack ==
    /\ authenticated
    /\ authenticated' = FALSE
    /\ sp' = NewVisualizer(sp)
    /\ run' = Run("disconnect", NoAuth, <<>>)
    /\ main' = NotRendered
    /\ current_track' = NoneTrack
    /\ current_features' = "None"
    /\ current_analysis' = NoneAnalysis
    /\ search_results' = <<>>
    /\ UNCHANGED <<auth_mode, acc>>

\* lines 485-488: the Disconnect button; st.rerun() ends the run there
Disconnect ==
    /\ authenticated
    /\ authenticated' = FALSE
    /\ sp' = NewVisualizer(sp)
    /\ run' = Run("disconnect", NoAuth, <<>>)
    /\ main' = NotRendered
    /\ UNCHANGED <<auth_mode, current_track, current_features,
                   current_analysis, search_results, acc>>

\* line 495: if st.session_state.auth_mode == 'full'
ShowsPlaylists(mode) == mode = "full"

\* lines 495-512: what every authenticated script run does before it looks
\* at the track buttons: in 'full' mode it lists the playlists and, when
\* there are any, the tracks of the selected one
Sidebar(mode, client, presp, tresp) ==
    IF ~ShowsPlaylists(mode) THEN [calls |-> <<>>, tracks |-> <<>>]
    ELSE LET p == get_user_playlists(client, presp)
             t == get_playlist_tracks(client, tresp)
         IN  IF p.ret = <<>>
             THEN [calls |-> <<Call("get_user_playlists", client, p)>>,
                   tracks |-> <<>>]
             ELSE [calls |-> <<Call("get_user_playlists", client, p),
                               Call("get_playlist_tracks", client, t)>>,
                   tracks |-> t.ret]

\* the sidebar over every provider answer
SidebarRuns(mode, client) ==
    {Sidebar(mode, client, presp, tresp) :
        presp \in PlaylistResponses, tresp \in SessionTrackResponses}

Elems(s) == {s[i] : i \in 1..Len(s)}

\* lines 516-521, 532-536, 563-568: features, analysis = get_track_features(id);
\* the unpacking raises on a bare None and the run ends there; the session
\* keeps the track only if features is truthy
StoreAnalysis(track, f, button, calls) ==
    IF Len(f.ret) # 2
    THEN /\ run' = [Run(button, NoAuth, calls) EXCEPT !.crashed = TRUE]
         /\ UNCHANGED <<current_track, current_features, current_analysis>>
    ELSE /\ run' = Run(button, NoAuth, calls)
         /\ IF Truthy(f.ret[1])
            THEN /\ current_track' = track
                 /\ current_features' = f.ret[1]
                 /\ current_analysis' = f.ret[2]
            ELSE UNCHANGED <<current_track, current_features, current_analysis>>

\* a script run with no button clicked (after st.rerun(), or a widget change)
Rerun ==
    /\ authenticated
    /\ \E side \in SidebarRuns(auth_mode, sp) :
        run' = Run("none", NoAuth, side.calls)
    /\ UNCHANGED <<sp, authenticated, auth_mode, current_track,
                   current_features, current_analysis, search_results, acc>>
    /\ main' = MainAfter(FALSE, authenticated', current_track',
                         current_features', current_analysis')

\* lines 514-521: the Analyze Track button under the playlist's track list
AnalyzeTrack ==
    /\ authenticated
    /\ \E side \in SidebarRuns(auth_mode, sp) :
        /\ side.tracks # <<>>
        /\ \E track \in Elems(side.tracks),
              fresp \in FeatureResponses, aresp \in AnalysisResponses :
            LET f == get_track_features(sp, fresp, aresp)
            IN  StoreAnalysis(track, f, "analyze_track",
                    Append(side.calls, Call("get_track_features", sp, f)))
    /\ UNCHANGED <<sp, authenticated, auth_mode, search_results, acc>>
    /\ main' = MainAfter(run'.crashed, authenticated', current_track',
                         current_features', current_analysis')

\* lines 527-538: the Get Currently Playing button
NowPlaying ==
    /\ authenticated
    /\ ShowsPlaylists(auth_mode)
    /\ \E side \in SidebarRuns(auth_mode, sp), cresp \in PlayingResponses :
        LET c == get_currently_playing(sp, cresp)
            calls == Append(side.calls, Call("get_currently_playing", sp, c))
        IN  IF c.ret # NonePlaying
            THEN \E fresp \in FeatureResponses, aresp \in AnalysisResponses :
                    LET f == get_track_features(sp, fresp, aresp)
                    IN  StoreAnalysis(c.ret, f, "now_playing",
                            Append(calls, Call("get_track_features", sp, f)))
            ELSE /\ run' = Run("now_playing", NoAuth, calls)
                 /\ UNCHANGED <<current_track, current_features, current_analysis>>
    /\ UNCHANGED <<sp, authenticated, auth_mode, search_results, acc>>
    /\ main' = MainAfter(run'.crashed, authenticated', current_track',
                         current_features', current_analysis')

\* lines 544-552: the Search button with a query typed in
Search ==
    /\ authenticated
    /\ \E side \in SidebarRuns(auth_mode, sp), sresp \in SessionTrackResponses :
        LET s == search_tracks(sp, sresp)
        IN  /\ run' = Run("search", NoAuth,
                          Append(side.calls, Call("search_tracks", sp, s)))
            /\ search_results' = IF s.ret # <<>> THEN s.ret ELSE search_results
    /\ UNCHANGED <<sp, authenticated, auth_mode, current_track,
                   current_features, current_analysis, acc>>
    /\ main' = MainAfter(FALSE, authenticated', current_track',
                         current_features', current_analysis')

\* lines 554-568: the Analyze Search Result button
AnalyzeSearch ==
    /\ authenticated
    /\ search_results # <<>>
    /\ \E side \in SidebarRuns(auth_mode, sp), track \in Elems(search_results),
          fresp \in FeatureResponses, aresp \in AnalysisResponses :
        LET f == get_track_features(sp, fresp, aresp)
        IN  StoreAnalysis(track, f, "analyze_search",
                Append(side.calls, Call("get_track_features", sp, f)))
    /\ UNCHANGED <<sp, authenticated, auth_mode, search_results, acc>>
    /\ main' = MainAfter(run'.crashed, authenticated', current_track',
                         current_features', current_analysis')

Next ==
    \/ ConnectManual
    \/ ConnectSecrets
    \/ Disconnect
    \/ Rerun
    \/ AnalyzeTrack
    \/ NowPlaying
    \/ Search
    \/ AnalyzeSearch

Spec == Init /\ [][Next]_vars

---------------------------------------------------------------------------
(* One accessor call taken alone, on every client and provider payload *)

\* the visualizer holds no client, an OAuth client or a client-credentials
\* client; the provider's answer to the call is fixed from the start
InitAccessor ==
    /\ sp \in {"none", "oauth", "cc"}
    /\ authenticated = FALSE
    /\ auth_mode = "full"
    /\ current_track = NoneTrack
    /\ current_features = "None"
    /\ current_analysis = NoneAnalysis
    /\ search_results = <<>>
    /\ run = Run("none", NoAuth, <<>>)
    /\ main = NotRendered
    /\ \/ \E resp \in TrackResponses : acc = [NoAcc EXCEPT !.resp = resp]
       \/ \E fresp \in FeatureResponses, aresp \in AnalysisResponses :
            acc = [NoAcc EXCEPT !.for = "features", !.resp = <<fresp, aresp>>]
       \/ \E resp \in PlayingResponses :
            acc = [NoAcc EXCEPT !.for = "playing", !.resp = resp]
       \/ \E resp \in PlaylistResponses :
            acc = [NoAcc EXCEPT !.for = "playlists", !.resp = resp]

CallPlaylistTracks ==
    /\ acc.op = "none"
    /\ acc.for = "tracks"
    /\ acc' = [acc EXCEPT !.op = "get_playlist_tracks",
                          !.out = get_playlist_tracks(sp, acc.resp)]
    /\ UNCHANGED <<sp, authenticated, auth_mode, current_track,
                   current_features, current_analysis, search_results, run, main>>

CallSearchTracks ==
    /\ acc.op = "none"
    /\ acc.for = "tracks"
    /\ acc' = [acc EXCEPT !.op = "search_tracks",
                          !.out = search_tracks(sp, acc.resp)]
    /\ UNCHANGED <<sp, authenticated, auth_mode, current_track,
                   current_features, current_analysis, search_results, run, main>>

CallTrackFeatures ==
    /\ acc.op = "none"
    /\ acc.for = "features"
    /\ acc' = [acc EXCEPT !.op = "get_track_features",
                          !.out = get_track_features(sp, acc.resp[1], acc.resp[2])]
    /\ UNCHANGED <<sp, authenticated, auth_mode, current_track,
                   current_features, current_analysis, search_results, run, main>>

CallCurrentlyPlaying ==
    /\ acc.op = "none"
    /\ acc.for = "playing"
    /\ acc' = [acc EXCEPT !.op = "get_currently_playing",
                          !.out = get_currently_playing(sp, acc.resp)]
    /\ UNCHANGED <<sp, authenticated, auth_mode, current_track,
                   current_features, current_analysis, search_results, run, main>>

CallUserPlaylists ==
    /\ acc.op = "none"
    /\ acc.for = "playlists"
    /\ acc' = [acc EXCEPT !.op = "get_user_playlists",
                          !.out = get_user_playlists(sp, acc.resp)]
    /\ UNCHANGED <<sp, authenticated, auth_mode, current_track,
                   current_features, current_analysis, search_results, run, main>>

NextAccessor ==
    \/ CallPlaylistTracks
    \/ CallSearchTracks
    \/ CallTrackFeatures
    \/ CallCurrentlyPlaying
    \/ CallUserPlaylists

SpecAccessor == InitAccessor /\ [][NextAccessor]_vars

---------------------------------------------------------------------------
(* Properties of the accessors taken alone (SpecAccessor) *)

\* a provider item the filter policy keeps: not null, preview URL not empty
Playable(t) == t # NoneTrack /\ t.preview_url \notin {"None", ""}

\* the playable items of a payload, in provider order, as the records handed back
PlayableInOrder(items) ==
    LET kept == SelectSeq(items, Playable)
    IN  [k \in 1..Len(kept) |->
            [id |-> kept[k].id, name |-> kept[k].name,
             preview_url |-> kept[k].preview_url]]

\* C1: whatever the provider answers, no record returned by
\* get_playlist_tracks or search_tracks has an empty or absent preview URL.
C1_NoTrackWithoutPreview ==
    acc.op \in {"get_playlist_tracks", "search_tracks"} =>
        \A k \in 1..Len(acc.out.ret) :
            /\ "preview_url" \in DOMAIN acc.out.ret[k]
            /\ acc.out.ret[k].preview_url \notin {"None", ""}

\* C1 witness: a playlist payload mixing a track without preview and a
\* playable one has been filtered, and something was returned.
C1_Witness ==
    /\ acc.op = "get_playlist_tracks"
    /\ ~acc.resp.raised
    /\ \E i, j \in 1..Len(acc.resp.items) :
        /\ acc.resp.items[i] # NoneTrack
        /\ acc.resp.items[i].preview_url \in {"None", ""}
        /\ Playable(acc.resp.items[j])
    /\ acc.out.ret # <<>>

\* C7: given the provider's playlist items, get_playlist_tracks returns
\* exactly the items whose track is non-null with a non-empty preview URL,
\* each once and in provider order, and an empty playlist gives the empty
\* list with no error reported.
C7_PlaylistTracksFiltered ==
    (acc.op = "get_playlist_tracks" /\ sp # "none" /\ ~acc.resp.raised) =>
        /\ acc.out.ret = PlayableInOrder(acc.resp.items)
        /\ ~acc.out.err

\* C7 witness: a playable item, a dropped item and another playable item, in
\* that order, went through the filter.
C7_Witness ==
    /\ acc.op = "get_playlist_tracks"
    /\ sp # "none"
    /\ ~acc.resp.raised
    /\ Len(acc.resp.items) = 3
    /\ Playable(acc.resp.items[1])
    /\ ~Playable(acc.resp.items[2])
    /\ Playable(acc.resp.items[3])
    /\ acc.resp.items[1].id # acc.resp.items[3].id
    /\ Len(acc.out.ret) = 2

\* C7 witness for the empty playlist: zero items, nothing returned, no error.
C7_WitnessEmpty ==
    /\ acc.op = "get_playlist_tracks"
    /\ sp # "none"
    /\ acc.resp = Items(<<>>)
    /\ acc.out = Result(<<>>, <<"playlist_tracks">>, FALSE)

\* C8 as claimed: search_tracks applies the same policy, dropping a null item
\* or one without preview and returning the rest in provider order, without
\* such an item failing the call.
C8_SearchTracksFiltered ==
    (acc.op = "search_tracks" /\ sp # "none" /\ ~acc.resp.raised) =>
        /\ acc.out.ret = PlayableInOrder(acc.resp.items)
        /\ ~acc.out.err

\* C4 as claimed: when exactly one of the two fetches of get_track_features
\* is absent or fails, the call succeeds with the available field present
\* and only the other one None.
C4_PartialFeaturesKept ==
    (/\ acc.op = "get_track_features"
     /\ sp # "none"
     /\ (acc.resp[1] = "vec") # (acc.resp[2].kind = "analysis")) =>
        /\ ~acc.out.err
        /\ acc.out.ret =
             <<IF acc.resp[1] = "vec" THEN "vec" ELSE "None",
               IF acc.resp[2].kind = "analysis" THEN acc.resp[2] ELSE NoneAnalysis>>

---------------------------------------------------------------------------
(* Properties of the session (Spec) *)

\* the accessors that read the user's playlists or playback
UserOps == {"get_user_playlists", "get_playlist_tracks", "get_currently_playing"}

\* what each kind of client is authorized for, and what each accessor needs
Capabilities(client) ==
    CASE client = "oauth" ->
            {"ReadPlaylists", "ReadCurrentlyPlaying", "ReadPrivateLibrary",
             "SearchPublicCatalog", "ReadTrackFeatures"}
      [] client = "cc" -> {"SearchPublicCatalog", "ReadTrackFeatures"}
      [] OTHER -> {}
Required(op) ==
    CASE op \in {"get_user_playlists", "get_playlist_tracks"} -> "ReadPlaylists"
      [] op = "get_currently_playing" -> "ReadCurrentlyPlaying"
      [] op = "search_tracks" -> "SearchPublicCatalog"
      [] OTHER -> "ReadTrackFeatures"

\* C2 as claimed: in every reachable session state, an accessor of the
\* playlist or now-playing endpoints that ran on a client-credentials client
\* issued no remote call.
C2_LimitedNeverHitsUserEndpoints ==
    \A i \in 1..Len(run.calls) :
        (run.calls[i].client = "cc" /\ run.calls[i].op \in UserOps) =>
            run.calls[i].net = <<>>

\* C3 as claimed: an accessor call on a client lacking the capability the
\* operation requires is refused with an error and issues no remote call.
C3_MissingCapabilityRefused ==
    \A i \in 1..Len(run.calls) :
        Required(run.calls[i].op) \notin Capabilities(run.calls[i].client) =>
            /\ run.calls[i].net = <<>>
            /\ run.calls[i].err

\* C5: a full-mode authenticate whose verification fails with "Address
\* already in use" and whose client-credentials attempt then succeeds at the
\* provider has made exactly one retry, in limited mode, and returned
\* success with the client-credentials client held by the visualizer.
C5_FallbackToLimited ==
    (/\ run.auth.called
     /\ ~run.auth.use_cc
     /\ Len(run.auth.script) = 2
     /\ run.auth.script[1] = "verify_addr"
     /\ run.auth.script[2] = "ok") =>
        /\ run.auth.ret
        /\ Len(run.auth.attempts) = 2
        /\ run.auth.attempts[1].client = "oauth"
        /\ run.auth.attempts[2].client = "cc"
        /\ sp = "cc"

\* C5 witness: such a call has returned through the fallback.
C5_Witness ==
    /\ run.auth.called
    /\ ~run.auth.use_cc
    /\ run.auth.script = <<"verify_addr", "ok">>
    /\ run.auth.ret
    /\ sp = "cc"

\* C6 as claimed: whatever the provider answers, an authenticate call makes
\* at most two authorization attempts before it returns.
C6_AtMostTwoAttempts ==
    run.auth.called => Len(run.auth.attempts) <= 2

\* C9: once authenticate with use_client_credentials=True has succeeded the
\* visualizer holds a client-credentials client and the session is in
\* limited mode; a connected limited session holds that client and runs no
\* playlist or now-playing accessor, and it stays limited while connected.
C9_PreferLimitedStaysLimited ==
    /\ [](/\ (run.auth.called /\ run.auth.use_cc /\ run.auth.ret) =>
                (sp = "cc" /\ auth_mode = "limited" /\ authenticated)
          /\ (authenticated /\ auth_mode = "limited") =>
                /\ sp = "cc"
                /\ \A i \in 1..Len(run.calls) : run.calls[i].op \notin UserOps)
    /\ [][(authenticated /\ auth_mode = "limited" /\ authenticated') =>
            auth_mode' = "limited"]_vars

\* C9 witness: a limited session, connected with use_client_credentials=True
\* earlier, has run a search and an analysis that issued remote calls.
C9_Witness ==
    /\ authenticated
    /\ auth_mode = "limited"
    /\ run.button = "analyze_search"
    /\ Len(run.calls) = 1
    /\ run.calls[1].net # <<>>

\* C10: authenticate returns success only when the verification call made
\* with the client it leaves in the visualizer has returned within that
\* call; when the verification of that client fails, authenticate returns
\* False and the session is not marked authenticated.
C10_VerifiedBeforeSuccess ==
    run.auth.called =>
        LET last == run.auth.attempts[Len(run.auth.attempts)]
        IN  /\ run.auth.ret =>
                (last.verified /\ last.client = sp /\ last.outcome = "ok")
            /\ last.outcome \in {"verify_addr", "verify_other"} =>
                (~run.auth.ret /\ ~authenticated)
            /\ authenticated = run.auth.ret

\* C10 witness: a call returned success after its verification succeeded,
\* and the session was marked authenticated.
C10_Witness ==
    /\ run.auth.called
    /\ run.auth.ret
    /\ run.auth.attempts[Len(run.auth.attempts)].verified
    /\ authenticated

\* C10 witness for the failing side: the verification failed, the call
\* returned False, and the session stayed unauthenticated with the
\* unverified client left in the visualizer.
C10_WitnessFailed ==
    /\ run.auth.called
    /\ ~run.auth.ret
    /\ run.auth.attempts[Len(run.auth.attempts)].outcome = "verify_other"
    /\ ~authenticated
    /\ sp # "none"

---------------------------------------------------------------------------
(* Properties of the chart builders and of the session, continued *)

\* C11 as claimed: when the track shown has an analysis whose segment list
\* is present but empty, the waveform and 3D builders raise nothing and the
\* tabs show the data as unavailable.
C11_ZeroSegmentsDegrade ==
    (/\ main.shown = "track"
     /\ "segments" \in DOMAIN current_analysis
     /\ current_analysis.segments = 0) =>
        /\ ~main.raised
        /\ main.waveform = "unavailable"
        /\ main.fig3d = "unavailable"

\* C12: get_currently_playing returns None and reports no error both when
\* the provider reports no playback object and when it reports
\* is_playing = false, and it returns a record only when is_playing is true.
C12_NotPlayingIsNone ==
    acc.op = "get_currently_playing" =>
        /\ (acc.resp.kind = "None" \/
            (acc.resp.kind = "playback" /\ ~acc.resp.is_playing)) =>
                (acc.out.ret = NonePlaying /\ ~acc.out.err)
        /\ acc.out.ret # NonePlaying =>
                (acc.resp.kind = "playback" /\ acc.resp.is_playing)

\* C12 witness: a paused playback of a track gave None, the remote call
\* having been made and no error reported.
C12_Witness ==
    /\ acc.op = "get_currently_playing"
    /\ acc.resp.kind = "playback"
    /\ ~acc.resp.is_playing
    /\ acc.resp.item # NoneTrack
    /\ acc.out = Result(NonePlaying, <<"current_user_playing_track">>, FALSE)

\* C12 witness for the playing side: a record was returned.
C12_WitnessPlaying ==
    /\ acc.op = "get_currently_playing"
    /\ acc.resp.kind = "playback"
    /\ acc.resp.is_playing
    /\ acc.out.ret # NonePlaying

\* whether a remote call of the accessor call taken alone failed
RemoteFailed ==
    CASE acc.for = "features" ->
            acc.resp[1] = "Raise" \/ acc.resp[2].kind = "Raise"
      [] acc.for = "playing" -> acc.resp.kind = "Raise"
      [] OTHER -> acc.resp.raised

\* the empty result of each accessor: [], (None, None), None
EmptyResult(op) ==
    CASE op = "get_track_features" -> <<"None", NoneAnalysis>>
      [] op = "get_currently_playing" -> NonePlaying
      [] OTHER -> <<>>

\* C13: for each of the five accessors, when the remote call fails the
\* accessor reports the error and returns its empty result to the caller.
C13_RemoteFailureCaught ==
    (acc.op # "none" /\ sp # "none" /\ RemoteFailed) =>
        /\ acc.out.err
        /\ acc.out.ret = EmptyResult(acc.op)
        /\ acc.out.net # <<>>

\* C13 witness: get_track_features fetched the vector, the analysis fetch
\* failed, and the pair (None, None) came back with the error reported.
C13_Witness ==
    /\ acc.op = "get_track_features"
    /\ sp # "none"
    /\ acc.resp[1] = "vec"
    /\ acc.resp[2].kind = "Raise"
    /\ acc.out = Result(<<"None", NoneAnalysis>>,
                        <<"audio_features", "audio_analysis">>, TRUE)

\* C13 witness for the other accessors: each has caught a failed remote call.
C13_WitnessLists ==
    /\ acc.op \in {"get_user_playlists", "get_playlist_tracks", "search_tracks"}
    /\ sp # "none"
    /\ acc.resp.raised
    /\ acc.out.err
    /\ acc.out.ret = <<>>

\* C14: right after a Disconnect the session is unauthenticated and holds a
\* visualizer with no client; while the session is unauthenticated no
\* accessor runs, so none issues a remote call; and the session becomes
\* authenticated again only in a run whose authenticate call returned True.
C14_DisconnectInvalidates ==
    /\ [](/\ run.button = "disconnect" => (~authenticated /\ sp = "none")
          /\ ~authenticated =>
                \A i \in 1..Len(run.calls) : run.calls[i].net = <<>>)
    /\ [][(~authenticated /\ authenticated') =>
            (run'.auth.called /\ run'.auth.ret)]_vars

\* C14 witness: a session that had analysed a track has been disconnected.
C14_Witness ==
    /\ run.button = "disconnect"
    /\ current_track # NoneTrack
    /\ ~authenticated
    /\ sp = "none"

\* C14 witness for the time after: a connect attempt after the disconnect
\* failed, and the session is still unauthenticated with no accessor run.
C14_WitnessFailedReconnect ==
    /\ run.auth.called
    /\ ~run.auth.ret
    /\ current_track # NoneTrack
    /\ ~authenticated
    /\ run.calls = <<>>

\* C15: an authenticated session's visualizer holds a client, so every
\* accessor the UI invokes runs on a client, and no run ends in the
\* unpacking of a bare None returned by get_track_features.
C15_AuthenticatedHoldsClient ==
    /\ authenticated => sp # "none"
    /\ \A i \in 1..Len(run.calls) : run.calls[i].client # "none"
    /\ ~run.crashed

\* C15 witness: an authenticated run has called get_track_features on its
\* client and unpacked the pair.
C15_Witness ==
    /\ authenticated
    /\ sp # "none"
    /\ run.button = "analyze_search"
    /\ \E i \in 1..Len(run.calls) :
        /\ run.calls[i].op = "get_track_features"
        /\ run.calls[i].client = sp
        /\ run.calls[i].net # <<>>
    /\ ~run.crashed

\* C16: a Disconnect leaves the analysed track, its features and analysis,
\* the search results and auth_mode as they were, changing only the
\* authenticated flag and the visualizer; a connect attempt leaves the track
\* data alone as well; a run with no button clicked fetches no features;
\* and the main area of an authenticated run shows the session's track.
C16_DisconnectKeepsTrack ==
    /\ [][run'.button = "disconnect" =>
            /\ ~authenticated' /\ sp' = "none"
            /\ UNCHANGED <<current_track, current_features, current_analysis,
                           search_results, auth_mode>>]_vars
    /\ [][run'.auth.called =>
            UNCHANGED <<current_track, current_features, current_analysis,
                        search_results>>]_vars
    /\ [](/\ run.button = "none" =>
                \A i \in 1..Len(run.calls) :
                    run.calls[i].op # "get_track_features"
          /\ (authenticated /\ main.shown # "nothing") =>
                IF current_track # NoneTrack
                THEN main.shown = "track" /\ main.track = current_track
                ELSE main.shown = "select")

\* C16 witness: a session that analysed a track and disconnected has been
\* authenticated again, and the track is still the session's.
C16_Witness ==
    /\ run.auth.called
    /\ run.auth.ret
    /\ authenticated
    /\ current_track # NoneTrack
    /\ current_features = "vec"

\* C16 witness for the display: after that, a run with no button clicked
\* shows the track without having fetched its features.
C16_WitnessShown ==
    /\ authenticated
    /\ run.button = "none"
    /\ main.shown = "track"
    /\ main.track = current_track

====
